---- MODULE Spec2Model ----
(***************************************************************************)
(* Model of postdraw (src/main.rs): the two per-pixel transforms "bw" and  *)
(* "halftone", the pass over the pixel grid, and the open -> transform ->  *)
(* save run of a subcommand.                                               *)
(*                                                                         *)
(* The transforms compute in IEEE-754 binary32 (Rust f32).  A binary32     *)
(* value is modelled bit-exactly as a record                               *)
(*     [k |-> "num", s |-> sign, m |-> significand, e |-> exponent]        *)
(* standing for (-1)^s * m * 2^e with m < 2^24 (m >= 2^23 for normal       *)
(* numbers, e = -149 for subnormals, m = 0 and e = 0 for zero), or         *)
(* k = "inf" / k = "nan" for the infinities and NaN.  Every operation      *)
(* rounds to nearest, ties to even, as the hardware does.  All             *)
(* intermediate integers stay below 2^31.                                  *)
(***************************************************************************)
EXTENDS Integers, Sequences, FiniteSets, TLC

----------------------------------------------------------------------------
(* binary32 arithmetic                                                     *)

Two12 == 2^12
Two20 == 2^20
Two23 == 2^23
Two24 == 2^24
EMin == 0 - 149
EMax == 127 - 23

NaN == [k |-> "nan", s |-> 0, m |-> 0, e |-> 0]
Inf(s) == [k |-> "inf", s |-> s, m |-> 0, e |-> 0]
Zero(s) == [k |-> "num", s |-> s, m |-> 0, e |-> 0]
Num(s, m, e) == [k |-> "num", s |-> s, m |-> m, e |-> e]

IsNaN(a) == a.k = "nan"
IsInf(a) == a.k = "inf"
IsZero(a) == a.k = "num" /\ a.m = 0
Xor(s, t) == (s + t) % 2

RECURSIVE BitLenSlow(_)
BitLenSlow(n) == IF n = 0 THEN 0 ELSE 1 + BitLenSlow(n \div 2)

\* the number of bits of n (n < 2^31)
BitLen(n) ==
    IF n >= Two24 THEN 24 + BitLenSlow(n \div Two24)
    ELSE IF n >= Two23 THEN 24
    ELSE BitLenSlow(n)

\* The exact value sig * 2^e rounded to binary32 (nearest, ties to even).
\* sig < 2^30.  An inexact sig carries its sticky bit in bit 0 and has at
\* least 26 bits, so the sticky bit lies below the rounding position.
RoundPack(s, sig, e) ==
    IF sig = 0 THEN Zero(s)
    ELSE LET n == BitLen(sig)
             k == IF e + (n - 24) < EMin THEN EMin - e ELSE n - 24
         IN IF k <= 0
            THEN IF e + k > EMax THEN Inf(s) ELSE Num(s, sig * 2^(0 - k), e + k)
            ELSE IF k > 30 THEN Zero(s)
            ELSE LET q == sig \div 2^k
                     r == sig % 2^k
                     half == 2^(k - 1)
                     up == r > half \/ (r = half /\ q % 2 = 1)
                     q2 == IF up THEN q + 1 ELSE q
                     m2 == IF q2 = Two24 THEN Two23 ELSE q2
                     e2 == IF q2 = Two24 THEN e + k + 1 ELSE e + k
                 IN IF q2 = 0 THEN Zero(s)
                    ELSE IF e2 > EMax THEN Inf(s)
                    ELSE Num(s, m2, e2)

Jam(sig, sticky) == IF sticky /\ sig % 2 = 0 THEN sig + 1 ELSE sig

\* A non-zero number with its significand shifted up to 24 bits (the
\* exponent is unbounded here; only subnormals change).
Normal(a) ==
    IF a.m >= Two23 THEN a
    ELSE LET sh == 24 - BitLen(a.m) IN Num(a.s, a.m * 2^sh, a.e - sh)

\* `x as f32` for an unsigned integer x < 2^24 (exact).
F32FromInt(n) == RoundPack(0, n, 0)

\* a * b
F32Mul(a, b) ==
    IF IsNaN(a) \/ IsNaN(b) THEN NaN
    ELSE IF IsInf(a) \/ IsInf(b)
         THEN IF IsZero(a) \/ IsZero(b) THEN NaN ELSE Inf(Xor(a.s, b.s))
    ELSE IF IsZero(a) \/ IsZero(b) THEN Zero(Xor(a.s, b.s))
    ELSE LET x == Normal(a)
             y == Normal(b)
             a1 == x.m \div Two12
             a0 == x.m % Two12
             b1 == y.m \div Two12
             b0 == y.m % Two12
             mid == a1 * b0 + a0 * b1
             lof == a0 * b0 + (mid % Two12) * Two12
             lo == lof % Two24
             hi == a1 * b1 + (mid \div Two12) + (lof \div Two24)
             sig == Jam(hi * 16 + (lo \div Two20), lo % Two20 # 0)
         IN RoundPack(Xor(a.s, b.s), sig, x.e + y.e + 20)

\* Six more quotient bits: <<quotient, remainder>> -> <<quotient, remainder>>.
DivStep(qr, d, bits) ==
    LET r == qr[2] * 2^bits IN <<qr[1] * 2^bits + (r \div d), r % d>>

\* a / b
F32Div(a, b) ==
    IF IsNaN(a) \/ IsNaN(b) THEN NaN
    ELSE IF IsInf(a) THEN (IF IsInf(b) THEN NaN ELSE Inf(Xor(a.s, b.s)))
    ELSE IF IsInf(b) THEN Zero(Xor(a.s, b.s))
    ELSE IF IsZero(b) THEN (IF IsZero(a) THEN NaN ELSE Inf(Xor(a.s, b.s)))
    ELSE IF IsZero(a) THEN Zero(Xor(a.s, b.s))
    ELSE LET x == Normal(a)
             y == Normal(b)
             q0 == <<x.m \div y.m, x.m % y.m>>
             q1 == DivStep(q0, y.m, 6)
             q2 == DivStep(q1, y.m, 6)
             q3 == DivStep(q2, y.m, 6)
             q4 == DivStep(q3, y.m, 6)
             q5 == DivStep(q4, y.m, 2)
         IN RoundPack(Xor(a.s, b.s), Jam(q5[1], q5[2] # 0), x.e - y.e - 26)

\* |a| < |b| for finite non-zero numbers
MagLt(a, b) ==
    LET x == Normal(a)
        y == Normal(b)
    IN x.e < y.e \/ (x.e = y.e /\ x.m < y.m)

\* a + b
F32Add(a, b) ==
    IF IsNaN(a) \/ IsNaN(b) THEN NaN
    ELSE IF IsInf(a) THEN (IF IsInf(b) /\ a.s # b.s THEN NaN ELSE a)
    ELSE IF IsInf(b) THEN b
    ELSE IF IsZero(a) /\ IsZero(b) THEN Zero(IF a.s = 1 /\ b.s = 1 THEN 1 ELSE 0)
    ELSE IF IsZero(a) THEN b
    ELSE IF IsZero(b) THEN a
    ELSE LET big == IF MagLt(a, b) THEN b ELSE a
             small == IF MagLt(a, b) THEN a ELSE b
             d == big.e - small.e
             A == big.m * 8
             B == IF d > 27 THEN 1
                  ELSE Jam((small.m * 8) \div 2^d, (small.m * 8) % 2^d # 0)
         IN IF big.s = small.s THEN RoundPack(big.s, A + B, big.e - 3)
            ELSE IF A = B THEN Zero(0)
            ELSE RoundPack(big.s, A - B, big.e - 3)

F32Neg(a) == IF IsNaN(a) THEN a ELSE [a EXCEPT !.s = 1 - a.s]

\* a - b
F32Sub(a, b) == F32Add(a, F32Neg(b))

\* a < b (false when either is NaN)
F32Lt(a, b) ==
    IF IsNaN(a) \/ IsNaN(b) THEN FALSE
    ELSE IF IsZero(a) /\ IsZero(b) THEN FALSE
    ELSE IF IsZero(a) THEN b.s = 0
    ELSE IF IsZero(b) THEN a.s = 1
    ELSE IF a.s # b.s THEN a.s = 1
    ELSE IF IsInf(a) THEN (a.s = 1 /\ ~IsInf(b))
    ELSE IF IsInf(b) THEN b.s = 0
    ELSE IF a.s = 0 THEN MagLt(a, b) ELSE MagLt(b, a)

\* f32::floor
F32Floor(a) ==
    IF a.k # "num" \/ a.m = 0 \/ a.e >= 0 THEN a
    ELSE LET sh == 0 - a.e
             ip == IF sh >= 24 THEN 0 ELSE a.m \div 2^sh
             n == IF a.s = 0 THEN ip ELSE ip + 1
         IN IF sh < 24 /\ a.m % 2^sh = 0 THEN a
            ELSE IF n = 0 THEN Zero(a.s) ELSE RoundPack(a.s, n, 0)

\* f32::clamp(min, max): NaN stays NaN
F32Clamp(a, lo, hi) ==
    IF F32Lt(a, lo) THEN lo ELSE IF F32Lt(hi, a) THEN hi ELSE a

\* Faulty variant of F32ToU8: the cast wraps modulo 256 instead of saturating.
F32ToU8Wrapping(a) ==
    IF a.k # "num" \/ a.m = 0 \/ a.s = 1 \/ a.e > 0 \/ 0 - a.e >= 24 THEN 0
    ELSE (a.m \div 2^(0 - a.e)) % 256

\* Faulty variant of F32ToU8: NaN converts to 255 instead of 0.
F32ToU8NaNMax(a) ==
    IF IsNaN(a) THEN 255
    ELSE IF a.s = 1 THEN 0
    ELSE IF IsInf(a) THEN 255
    ELSE IF a.m = 0 THEN 0
    ELSE IF a.e > 0 THEN 255
    ELSE IF 0 - a.e >= 24 THEN 0
    ELSE LET t == a.m \div 2^(0 - a.e) IN IF t > 255 THEN 255 ELSE t

\* `a as u8`: truncates toward zero, saturates to 0..255, NaN gives 0
F32ToU8(a) ==
    IF IsNaN(a) THEN 0
    ELSE IF a.s = 1 THEN 0
    ELSE IF IsInf(a) THEN 255
    ELSE IF a.m = 0 THEN 0
    ELSE IF a.e > 0 THEN 255
    ELSE IF 0 - a.e >= 24 THEN 0
    ELSE LET t == a.m \div 2^(0 - a.e) IN IF t > 255 THEN 255 ELSE t

\* u8::saturating_add
SaturatingAdd(a, b) == IF a + b > 255 THEN 255 ELSE a + b

----------------------------------------------------------------------------
(* bw: the per-pixel rule                                                  *)

\* Faulty variant of BwPixel: base is added with wrap-around instead of saturation.
BwPixelWrapping(v, t, c, b) ==
    IF v <= t
    THEN (F32ToU8(F32Mul(F32Mul(F32Div(F32FromInt(v), F32FromInt(t)), c),
                         F32FromInt(t))) + b) % 256
    ELSE 255

\* src/main.rs:84-88
BwPixel(v, t, c, b) ==
    IF v <= t
    THEN SaturatingAdd(
             F32ToU8(F32Mul(F32Mul(F32Div(F32FromInt(v), F32FromInt(t)), c),
                            F32FromInt(t))),
             b)
    ELSE 255

----------------------------------------------------------------------------
(* halftone: the per-pixel rule                                            *)

One == Num(0, Two23, 0 - 23)
Two == Num(0, Two23, 0 - 22)
F255 == Num(0, 255 * 2^16, 0 - 16)

\* Vec2::from_angle(FRAC_PI_4) = (cos, sin) of the binary32 nearest to pi/4:
\* both, correctly rounded, are 0x3F3504F3 = 11863283 * 2^-24.
Angle == <<Num(0, 11863283, 0 - 24), Num(0, 11863283, 0 - 24)>>

\* glam Vec2::rotate: rhs rotated by the angle of self
Rotate(self, rhs) ==
    <<F32Sub(F32Mul(self[1], rhs[1]), F32Mul(self[2], rhs[2])),
      F32Add(F32Mul(self[2], rhs[1]), F32Mul(self[1], rhs[2]))>>

VecDiv(a, k) == <<F32Div(a[1], k), F32Div(a[2], k)>>
VecMul(a, k) == <<F32Mul(a[1], k), F32Mul(a[2], k)>>
VecSubS(a, k) == <<F32Sub(a[1], k), F32Sub(a[2], k)>>
VecSub(a, b) == <<F32Sub(a[1], b[1]), F32Sub(a[2], b[2])>>
VecFloor(a) == <<F32Floor(a[1]), F32Floor(a[2])>>
LengthSquared(a) == F32Add(F32Mul(a[1], a[1]), F32Mul(a[2], a[2]))

\* Faulty variant of Radius: the luma term is added as v/255 instead of 1 - v/255.
RadiusGrowsWithLuma(luma, rad) ==
    F32Add(rad, F32Div(F32FromInt(luma), F255))

\* src/main.rs:129: the effective radius of a pixel
Radius(luma, rad) ==
    F32Add(rad, F32Sub(One, F32Div(F32FromInt(luma), F255)))

\* src/main.rs:130: radius.powi(2)
RadiusSquared(luma, rad) ==
    LET r == Radius(luma, rad) IN F32Mul(r, r)

\* src/main.rs:132-136
DistSquared(x, y, st) ==
    LET pos == Rotate(Angle, <<F32FromInt(x), F32FromInt(y)>>)
        index == VecFloor(VecDiv(pos, st))
        delta_pos == VecSub(pos, VecMul(index, st))
        delta == VecSubS(VecMul(VecDiv(delta_pos, st), Two), One)
    IN LengthSquared(delta)

\* src/main.rs:137
Coverage(x, y, luma, st, rad) ==
    F32Clamp(F32Sub(RadiusSquared(luma, rad), DistSquared(x, y, st)),
             Zero(0), One)

\* Faulty variant of HalftonePixel: the threshold test is strict (luma < t).
HalftonePixelStrict(x, y, luma, alpha, t, st, rad, b) ==
    <<b,
      IF alpha # 0 /\ luma < t
      THEN F32ToU8(F32Mul(Coverage(x, y, luma, st, rad), F255))
      ELSE 0>>

\* Faulty variant of HalftonePixel: the source alpha is not looked at.
HalftonePixelAnyAlpha(x, y, luma, alpha, t, st, rad, b) ==
    <<b,
      IF luma <= t
      THEN F32ToU8(F32Mul(Coverage(x, y, luma, st, rad), F255))
      ELSE 0>>

\* Faulty variant of HalftonePixel: the luma is set to base only in the dot branch.
HalftonePixelKeepsBright(x, y, luma, alpha, t, st, rad, b) ==
    IF alpha # 0 /\ luma <= t
    THEN <<b, F32ToU8(F32Mul(Coverage(x, y, luma, st, rad), F255))>>
    ELSE <<luma, 0>>

\* src/main.rs:127-145: the new <<luma, alpha>> of the pixel at (x, y)
HalftonePixel(x, y, luma, alpha, t, st, rad, b) ==
    <<b,
      IF alpha # 0 /\ luma <= t
      THEN F32ToU8(F32Mul(Coverage(x, y, luma, st, rad), F255))
      ELSE 0>>

----------------------------------------------------------------------------
(* The run of a subcommand                                                 *)

VARIABLES
    mode,        \* the subcommand: "bw" or "halftone"
    threshold,   \* --threshold (u8)
    compress,    \* --compress (f32), bw only
    stride,      \* --stride (f32), halftone only
    radius,      \* --radius (f32), halftone only
    base,        \* --base (u8)
    pc,          \* "open", "loop", "exit"; "input", "applied" for one pixel
    width,       \* image.width()
    height,      \* image.height()
    image,       \* the pixel buffer: cell index -> <<luma>> or <<luma, alpha>>
    idx,         \* position of the pixel iterator (cells finished)
    src,         \* the image as decoded, kept for comparison
    visits,      \* cell index -> number of times the loop body ran on it
    log,         \* the calls made so far: open, pixel, save, with their outcome
    result,      \* what the subcommand returns: "none", "ok", "err"
    outFile,     \* the image file written by save (NoFile: none)
    at,          \* coordinates <<x, y>> of the pixels in pix
    pix,         \* input pixels the rule is applied to on their own
    res          \* their output pixels

vars == <<mode, threshold, compress, stride, radius, base, pc, width, height,
          image, idx, src, visits, log, result, outFile, at, pix, res>>

args == <<mode, threshold, compress, stride, radius, base>>

\* bounds of the model
MaxWidth == 2
MaxHeight == 2
MaxCoord == 5

NoArg == "none"

\* A decimal argument n/d as clap's value_parser!(f32) reads it: the
\* binary32 nearest to it (n and d are exact, the quotient rounds once).
Dec(s, n, d) ==
    LET q == F32Div(F32FromInt(n), F32FromInt(d))
    IN IF s = 1 THEN F32Neg(q) ELSE q

\* the argument values tried (defaults: src/main.rs:24,27,30,41,44,47,50)
BwThresholds == {0, 150, 255}
\* compress factors: 0.4, -0.3, 10, 1 and the large 2^123 (the product
\* overflows to +infinity)
BwFactors ==
    {Dec(0, 4, 10), Dec(1, 3, 10), Dec(0, 10, 1), Dec(0, 1, 1), Num(0, Two23, 100)}
BwBases == {20, 250}
HtThresholds == {150}
HtStrides == {Dec(0, 6, 1), Dec(0, 3, 1)}
HtRadii == {Dec(0, 4, 10), Dec(0, 0, 1), Dec(1, 2, 1)}
HtBases == {40}

\* lumas of the second pixel in a pair, and the pixels tried for halftone
RefLumas == {0, 1, 100, 150, 151, 255}
HtLumas == {0, 100, 150, 200}
HtAlphas == {0, 255}

\* pixels the test images are made of, as to_luma8 / to_luma_alpha8 hand
\* them to the loop
Palette ==
    IF mode = "bw" THEN <<<<100>>, <<200>>, <<150>>, <<0>>>>
    ELSE <<<<100, 255>>, <<200, 255>>, <<150, 0>>, <<0, 255>>>>

Cells(w, h) == 0 .. (w * h - 1)

TestImage(w, h, shift) ==
    [i \in Cells(w, h) |-> Palette[((i + shift) % Len(Palette)) + 1]]

NoImage == <<>>
NoSource == [width |-> 0, height |-> 0, pixels |-> NoImage]
NoFile == [width |-> 0, height |-> 0, pixels |-> NoImage]

\* Faulty variant of BwBody: the luma is read from the pixel before (index slip).
BwBodyReadsPrevious(img, i) ==
    [img EXCEPT ![i] = <<BwPixel(img[IF i > 0 THEN i - 1 ELSE i][1],
                                 threshold, compress, base)>>]

\* src/main.rs:83-89: the body of the loop of bw on the pixel at index i
BwBody(img, i) ==
    [img EXCEPT ![i] = <<BwPixel(img[i][1], threshold, compress, base)>>]

\* src/main.rs:125-147: the body of the loop of halftone on the pixel at
\* index i; enumerate_pixels_mut yields (x, y) in row-major order
HalftoneBody(img, i) ==
    [img EXCEPT ![i] = HalftonePixel(i % width, i \div width, img[i][1],
                                     img[i][2], threshold, stride, radius,
                                     base)]

Body(img, i) == IF mode = "bw" THEN BwBody(img, i) ELSE HalftoneBody(img, i)

\* one more run of the loop body on cell i
Touch(vs, i) ==
    [j \in (DOMAIN vs) \cup {i} |->
        (IF j \in DOMAIN vs THEN vs[j] ELSE 0) + (IF j = i THEN 1 ELSE 0)]

\* the whole loop, from cell i on, in iterator order
RECURSIVE Pass(_, _)
Pass(img, i) ==
    IF i >= width * height THEN img ELSE Pass(Body(img, i), i + 1)

\* the arguments of a run: main() dispatches on the subcommand
RunArgs ==
    /\ mode \in {"bw", "halftone"}
    /\ threshold \in {150}
    /\ compress \in IF mode = "bw" THEN {Dec(0, 4, 10), Dec(0, 10, 1)} ELSE {NoArg}
    /\ stride \in IF mode = "bw" THEN {NoArg} ELSE HtStrides
    /\ radius \in IF mode = "bw" THEN {NoArg} ELSE {Dec(0, 4, 10), Dec(1, 2, 1)}
    /\ base \in IF mode = "bw" THEN BwBases ELSE {40, 0}

NoRun ==
    /\ width = 0
    /\ height = 0
    /\ image = NoImage
    /\ idx = 0
    /\ src = NoSource
    /\ visits = NoImage
    /\ log = <<>>
    /\ result = "none"
    /\ outFile = NoFile

NoPixels ==
    /\ at = <<0, 0>>
    /\ pix = <<>>
    /\ res = <<>>

Init ==
    /\ RunArgs
    /\ pc = "open"
    /\ NoRun
    /\ NoPixels

\* src/main.rs:76,113: image::open succeeds and the image is converted
OpenOk ==
    /\ pc = "open"
    /\ \E w \in 1 .. MaxWidth, h \in 1 .. MaxHeight, shift \in 0 .. 3 :
          /\ width' = w
          /\ height' = h
          /\ image' = TestImage(w, h, shift)
          /\ src' = [width |-> w, height |-> h, pixels |-> TestImage(w, h, shift)]
          /\ visits' = [i \in Cells(w, h) |-> 0]
    /\ idx' = 0
    /\ log' = Append(log, "open_ok")
    /\ pc' = "loop"
    /\ UNCHANGED <<args, result, outFile, at, pix, res>>

\* Faulty variant of OpenErr: the error is swallowed and the run goes on with a
\* default one-pixel image.
OpenErrIgnored ==
    /\ pc = "open"
    /\ log' = Append(log, "open_err")
    /\ width' = 1
    /\ height' = 1
    /\ image' = TestImage(1, 1, 0)
    /\ src' = [width |-> 1, height |-> 1, pixels |-> TestImage(1, 1, 0)]
    /\ visits' = [i \in Cells(1, 1) |-> 0]
    /\ pc' = "loop"
    /\ UNCHANGED <<args, idx, result, outFile, at, pix, res>>

\* src/main.rs:76,113: image::open fails and `?` returns the error
OpenErr ==
    /\ pc = "open"
    /\ log' = Append(log, "open_err")
    /\ result' = "err"
    /\ pc' = "exit"
    /\ UNCHANGED <<args, width, height, image, idx, src, visits, outFile,
                   at, pix, res>>

\* Faulty variant of Pixel: the iterator advances by two cells.
PixelSkipsOne ==
    /\ pc = "loop"
    /\ idx < width * height
    /\ image' = Body(image, idx)
    /\ visits' = Touch(visits, idx)
    /\ idx' = IF idx + 2 > width * height THEN width * height ELSE idx + 2
    /\ log' = Append(log, "pixel")
    /\ UNCHANGED <<args, pc, width, height, src, result, outFile, at, pix, res>>

\* src/main.rs:83-89,125-147: one iteration of the loop
Pixel ==
    /\ pc = "loop"
    /\ idx < width * height
    /\ image' = Body(image, idx)
    /\ visits' = Touch(visits, idx)
    /\ idx' = idx + 1
    /\ log' = Append(log, "pixel")
    /\ UNCHANGED <<args, pc, width, height, src, result, outFile, at, pix, res>>

\* src/main.rs:93-95,151-153: the loop is over, save succeeds, Ok(())
SaveOk ==
    /\ pc = "loop"
    /\ idx = width * height
    /\ outFile' = [width |-> width, height |-> height, pixels |-> image]
    /\ log' = Append(log, "save_ok")
    /\ result' = "ok"
    /\ pc' = "exit"
    /\ UNCHANGED <<args, width, height, image, idx, src, visits, at, pix, res>>

\* src/main.rs:93,151: the loop is over, save fails and `?` returns the error
SaveErr ==
    /\ pc = "loop"
    /\ idx = width * height
    /\ log' = Append(log, "save_err")
    /\ result' = "err"
    /\ pc' = "exit"
    /\ UNCHANGED <<args, width, height, image, idx, src, visits, outFile,
                   at, pix, res>>

Next == OpenOk \/ OpenErr \/ Pixel \/ SaveOk \/ SaveErr

Spec == Init /\ [][Next]_vars

----------------------------------------------------------------------------
(* The pass with the cells taken in any order: every cell is owned by one  *)
(* worker, which runs the loop body on it once; the workers interleave     *)
(* freely.  idx counts the cells finished, save waits for all of them.     *)

PixelAny ==
    /\ pc = "loop"
    /\ \E i \in DOMAIN image :
          /\ visits[i] = 0
          /\ image' = Body(image, i)
          /\ visits' = Touch(visits, i)
    /\ idx' = idx + 1
    /\ log' = Append(log, "pixel")
    /\ UNCHANGED <<args, pc, width, height, src, result, outFile, at, pix, res>>

NextPar == OpenOk \/ OpenErr \/ PixelAny \/ SaveOk \/ SaveErr

SpecPar == Init /\ [][NextPar]_vars

----------------------------------------------------------------------------
(* The rule of bw applied to two pixels of an image                        *)

InitBw ==
    /\ mode = "bw"
    /\ threshold \in BwThresholds
    /\ compress \in BwFactors
    /\ stride = NoArg
    /\ radius = NoArg
    /\ base \in BwBases
    /\ pc = "input"
    /\ NoRun
    /\ at = <<0, 0>>
    /\ pix \in {<<<<v1>>, <<v2>>>> : v1 \in 0 .. 255, v2 \in RefLumas}
    /\ res = <<>>

ApplyBw ==
    /\ pc = "input"
    /\ mode = "bw"
    /\ res' = [k \in 1 .. 2 |-> <<BwPixel(pix[k][1], threshold, compress, base)>>]
    /\ pc' = "applied"
    /\ UNCHANGED <<args, width, height, image, idx, src, visits, log, result,
                   outFile, at, pix>>

NextBw == ApplyBw

SpecBw == InitBw /\ [][NextBw]_vars

----------------------------------------------------------------------------
(* The rule of halftone applied to two pixels at the same coordinates      *)

InitHt ==
    /\ mode = "halftone"
    /\ threshold \in HtThresholds
    /\ compress = NoArg
    /\ stride \in HtStrides
    /\ radius \in HtRadii
    /\ base \in HtBases
    /\ pc = "input"
    /\ NoRun
    /\ at \in (0 .. MaxCoord) \X (0 .. MaxCoord)
    /\ pix \in {<<<<v1, a1>>, <<v2, a2>>>> :
                   v1 \in HtLumas, a1 \in HtAlphas, v2 \in HtLumas, a2 \in HtAlphas}
    /\ res = <<>>

ApplyHt ==
    /\ pc = "input"
    /\ mode = "halftone"
    /\ res' = [k \in 1 .. 2 |->
                  HalftonePixel(at[1], at[2], pix[k][1], pix[k][2], threshold,
                                stride, radius, base)]
    /\ pc' = "applied"
    /\ UNCHANGED <<args, width, height, image, idx, src, visits, log, result,
                   outFile, at, pix>>

NextHt == ApplyHt

SpecHt == InitHt /\ [][NextHt]_vars

----------------------------------------------------------------------------
(* Vocabulary of the properties                                            *)

Big == 2^30

\* The integer value of an integral binary32 number, cut off at +-2^30;
\* NaN counts as 0.
ToInt(a) ==
    IF IsNaN(a) THEN 0
    ELSE LET mag == IF IsInf(a) THEN Big
                    ELSE IF a.m = 0 THEN 0
                    ELSE IF a.e > 6 THEN Big
                    ELSE IF a.e >= 0 THEN a.m * 2^(a.e)
                    ELSE IF 0 - a.e >= 24 THEN 0
                    ELSE a.m \div 2^(0 - a.e)
         IN IF a.s = 1 THEN 0 - mag ELSE mag

Abs(a) == IF IsNaN(a) THEN a ELSE [a EXCEPT !.s = 0]

\* floor(a) and a truncated toward zero, as integers
FloorInt(a) == ToInt(F32Floor(a))
TruncInt(a) ==
    IF IsNaN(a) THEN 0
    ELSE IF a.s = 1 THEN 0 - ToInt(F32Floor(Abs(a)))
    ELSE ToInt(F32Floor(a))

\* a rounded to the nearest integer (a >= 0)
RoundInt(a) == FloorInt(F32Add(a, Dec(0, 1, 2)))

ClampU8(n) == IF n < 0 THEN 0 ELSE IF n > 255 THEN 255 ELSE n
Min(a, b) == IF a < b THEN a ELSE b

Applied == pc = "applied"
Positive(a) == F32Lt(Zero(0), a)
Negative(a) == F32Lt(a, Zero(0))

\* v/threshold * compress * threshold, evaluated left to right in binary32
Product(v) ==
    F32Mul(F32Mul(F32Div(F32FromInt(v), F32FromInt(threshold)), compress),
           F32FromInt(threshold))

----------------------------------------------------------------------------
(* bw                                                                      *)

\* C1 as stated: the output of bw is 255 above the threshold and otherwise
\* clamp_u8(floor(v/threshold * compress * threshold) + base), the sum being
\* clamped once.
C1_AsStated ==
    Applied /\ mode = "bw" =>
        \A k \in 1 .. 2 :
            LET v == pix[k][1]
            IN res[k][1] = IF v > threshold THEN 255
                           ELSE ClampU8(FloorInt(Product(v)) + base)

\* C1 amended: the output of bw is 255 above the threshold and otherwise
\* min(255, clamp_u8(trunc(v/threshold * compress * threshold)) + base): the
\* product is truncated toward zero and saturated into 0..255 first (NaN
\* giving 0), then base is added with saturation at 255.
C1_BwRule ==
    Applied /\ mode = "bw" =>
        \A k \in 1 .. 2 :
            LET v == pix[k][1]
            IN res[k][1] = IF v > threshold THEN 255
                           ELSE Min(255, ClampU8(TruncInt(Product(v))) + base)

\* threshold=150, compress=0.4, base=20 maps v=100 to 60 and v=151 to 255
C1_Witness ==
    /\ Applied /\ mode = "bw"
    /\ threshold = 150 /\ compress = Dec(0, 4, 10) /\ base = 20
    /\ pix = <<<<100>>, <<151>>>>
    /\ res = <<<<60>>, <<255>>>>

\* C4: for a positive compress factor the output of bw is monotonic over the
\* compressed range: v1 <= v2 <= threshold implies output(v1) <= output(v2).
C4_Monotonic ==
    Applied /\ mode = "bw" /\ Positive(compress) =>
        \A j, k \in 1 .. 2 :
            pix[j][1] <= pix[k][1] /\ pix[k][1] <= threshold
                => res[j][1] <= res[k][1]

C4_Witness ==
    /\ Applied /\ mode = "bw" /\ Positive(compress)
    /\ pix[1][1] < pix[2][1] /\ pix[2][1] <= threshold
    /\ res[1][1] < res[2][1]
    /\ res[2][1] < 255

\* C9: with threshold = 0 bw yields a defined value for every pixel: base for
\* v = 0 (0/0 is NaN, which converts to 0) and 255 for every v > 0.
C9_ThresholdZero ==
    Applied /\ mode = "bw" /\ threshold = 0 =>
        \A k \in 1 .. 2 :
            /\ res[k][1] \in 0 .. 255
            /\ res[k][1] = IF pix[k][1] = 0 THEN base ELSE 255

C9_Witness ==
    /\ Applied /\ mode = "bw" /\ threshold = 0
    /\ pix[1][1] = 0 /\ pix[2][1] > 0
    /\ IsNaN(Product(0))
    /\ res[1][1] = base /\ res[2][1] = 255

----------------------------------------------------------------------------
(* halftone                                                                *)

\* clamp(radius^2 - dist_sq, 0, 1) * 255 for a pixel of luma v at `at`, with
\* radius = base_radius + (1 - v/255)
Alpha255(v) ==
    LET r == Radius(v, radius)
        d == DistSquared(at[1], at[2], stride)
    IN F32Mul(F32Clamp(F32Sub(F32Mul(r, r), d), Zero(0), One), F255)

\* C2 as stated: every pixel with v <= threshold, whatever its source alpha,
\* is output with alpha round(clamp(radius^2 - dist_sq, 0, 1) * 255) and luma
\* base_luma.
C2_AsStated ==
    Applied /\ mode = "halftone" =>
        \A k \in 1 .. 2 :
            pix[k][1] <= threshold
                => res[k] = <<base, RoundInt(Alpha255(pix[k][1]))>>

\* C2 amended: every pixel with v <= threshold and a non-zero source alpha is
\* output with alpha trunc(clamp(radius^2 - dist_sq, 0, 1) * 255), the
\* fraction being dropped, and luma base_luma.
C2_DotAlpha ==
    Applied /\ mode = "halftone" =>
        \A k \in 1 .. 2 :
            pix[k][1] <= threshold /\ pix[k][2] # 0
                => res[k] = <<base, TruncInt(Alpha255(pix[k][1]))>>

\* a partly covered pixel whose alpha is truncated, not rounded
C2_Witness ==
    /\ Applied /\ mode = "halftone"
    /\ pix[1][1] <= threshold /\ pix[1][2] # 0
    /\ res[1][2] = TruncInt(Alpha255(pix[1][1]))
    /\ res[1][2] \in 1 .. 254
    /\ RoundInt(Alpha255(pix[1][1])) = res[1][2] + 1

\* C10: a pixel whose source alpha is 0 is output with alpha 0 and luma
\* base_luma whatever its luma; only pixels with non-zero source alpha and
\* v <= threshold get a non-zero alpha.
C10_TransparentStays ==
    Applied /\ mode = "halftone" =>
        \A k \in 1 .. 2 :
            /\ pix[k][2] = 0 => res[k] = <<base, 0>>
            /\ res[k][2] # 0 => pix[k][2] # 0 /\ pix[k][1] <= threshold

\* a dark, fully transparent pixel inside a dot stays transparent
C10_Witness ==
    /\ Applied /\ mode = "halftone"
    /\ pix[1][2] = 0 /\ pix[1][1] <= threshold
    /\ TruncInt(Alpha255(pix[1][1])) > 0
    /\ res[1] = <<base, 0>>

\* C5 as stated: of two pixels at the same coordinates with lumas
\* v1 < v2 <= threshold the darker one has the greater or equal output alpha,
\* for every base radius.
C5_AsStated ==
    Applied /\ mode = "halftone" =>
        \A j, k \in 1 .. 2 :
            pix[j][1] < pix[k][1] /\ pix[k][1] <= threshold
                => res[j][2] >= res[k][2]

\* C5 amended: the same, provided the effective radius of the brighter pixel,
\* radius + (1 - v2/255), is not negative and the source alpha of the darker
\* pixel is not 0.
C5_RadiusEffect ==
    Applied /\ mode = "halftone" =>
        \A j, k \in 1 .. 2 :
            /\ pix[j][1] < pix[k][1] /\ pix[k][1] <= threshold
            /\ pix[j][2] # 0
            /\ ~Negative(Radius(pix[k][1], radius))
            => res[j][2] >= res[k][2]

C5_Witness ==
    /\ Applied /\ mode = "halftone"
    /\ pix[1][1] < pix[2][1] /\ pix[2][1] <= threshold
    /\ pix[1][2] # 0 /\ pix[2][2] # 0
    /\ ~Negative(Radius(pix[2][1], radius))
    /\ res[1][2] > res[2][2]
    /\ res[2][2] > 0

----------------------------------------------------------------------------
(* The pass and the run                                                    *)

Opened == log # <<>> /\ log[1] = "open_ok"
LoopOver == Opened /\ idx = width * height
Grid == Cells(width, height)

\* C3: halftone outputs every pixel with v > threshold with alpha 0 and luma
\* base_luma, and after the pass every pixel of the grid has luma base_luma.
C3_BrightTransparent ==
    mode = "halftone" /\ Opened =>
        /\ \A i \in Grid :
              visits[i] > 0 =>
                  /\ image[i][1] = base
                  /\ src.pixels[i][1] > threshold => image[i] = <<base, 0>>
        /\ LoopOver => \A i \in Grid : image[i][1] = base

\* the pass is over: a bright opaque pixel became transparent, a dark one
\* became a visible dot, all have luma base_luma
C3_Witness ==
    /\ mode = "halftone" /\ LoopOver
    /\ \E i, j \in Grid :
          /\ src.pixels[i][1] > threshold /\ src.pixels[i][2] = 255
          /\ image[i] = <<base, 0>>
          /\ src.pixels[j][1] <= threshold /\ image[j][2] > 0
    /\ \A i \in Grid : image[i][1] = base /\ src.pixels[i][1] # base

\* C8: a pass runs the loop body on every cell of the W x H grid exactly
\* once, on no cell outside it, and yields a grid of width W and height H.
C8_EveryCellOnce ==
    Opened =>
        /\ width = src.width /\ height = src.height
        /\ idx \in 0 .. width * height
        /\ DOMAIN image = Grid
        /\ DOMAIN visits = Grid
        /\ \A i \in Grid : visits[i] = IF i < idx THEN 1 ELSE 0
        /\ LoopOver => \A i \in Grid : visits[i] = 1
        /\ outFile # NoFile =>
              /\ outFile.width = src.width
              /\ outFile.height = src.height
              /\ DOMAIN outFile.pixels = Cells(src.width, src.height)

C8_Witness ==
    /\ LoopOver
    /\ src.width = MaxWidth /\ src.height = MaxHeight
    /\ \A i \in Grid : visits[i] = 1 /\ image[i] # src.pixels[i]
    /\ outFile # NoFile
    /\ outFile.width = MaxWidth /\ outFile.height = MaxHeight

IsOpen(ev) == ev \in {"open_ok", "open_err"}
IsSave(ev) == ev \in {"save_ok", "save_err"}

\* C7: a run proceeds open -> transform -> save.  A failed open ends the run
\* with a failure before any pixel is transformed and without an output file;
\* a failed save ends it with a failure after the whole transform; the run
\* succeeds only when open and save both succeeded; no step is retried.
C7_OpenTransformSave ==
    LET n == Len(log)
    IN /\ log = <<>> => pc = "open" /\ result = "none" /\ outFile = NoFile
       /\ \A k \in 1 .. n : IsOpen(log[k]) <=> k = 1
       /\ \A k \in 1 .. n :
             IsSave(log[k]) =>
                 /\ k = n
                 /\ log[1] = "open_ok"
                 /\ n = width * height + 2
                 /\ \A i \in Grid : visits[i] = 1
       /\ n > 0 /\ log[1] = "open_err" =>
             /\ n = 1
             /\ result = "err"
             /\ image = NoImage
             /\ outFile = NoFile
       /\ result = "ok" <=> n > 0 /\ log[n] = "save_ok"
       /\ result = "err" <=> n > 0 /\ log[n] \in {"open_err", "save_err"}
       /\ outFile # NoFile <=> result = "ok"
       /\ pc = "exit" <=> result # "none"

\* save failed after all four pixels of a 2 x 2 image were transformed
C7_Witness ==
    /\ result = "err"
    /\ width * height = 4
    /\ log = <<"open_ok", "pixel", "pixel", "pixel", "pixel", "save_err">>
    /\ \A i \in Grid : image[i] # src.pixels[i]
    /\ outFile = NoFile

\* C6: every output pixel depends only on its own input value, its own
\* coordinates and the arguments, so the cells may be processed in any order,
\* or by workers owning disjoint cells, with the result of the sequential
\* pass.
C6_AnyOrder ==
    Opened =>
        LET seq == Pass(src.pixels, 0)
        IN /\ \A i \in Grid :
                 image[i] = IF visits[i] > 0 THEN seq[i] ELSE src.pixels[i]
           /\ LoopOver => image = seq
           /\ outFile # NoFile => outFile.pixels = seq

\* the last cell was processed before the first one
C6_Witness ==
    /\ Opened
    /\ width * height = 4
    /\ visits[3] = 1 /\ visits[0] = 0
    /\ image[3] = Pass(src.pixels, 0)[3]
    /\ image[3] # src.pixels[3]

====
